---- MODULE Spec2Model ----
(***************************************************************************)
(* codescan-ai: the /analyze route handler (POST of                        *)
(* frontend/dist/api/analyze/route.ts), modelled as a state machine.       *)
(*                                                                         *)
(* Texts are sequences of lexical chunks: the characters the handler's     *)
(* regular expression and JSON.parse distinguish ("{", "}", "[", "]", the  *)
(* double quote, ":", ",", the digit "1") and runs of letters ("score",    *)
(* "prose", ...), which neither of them looks into.  The JSON grammar      *)
(* modelled is objects, arrays, strings without escapes and unsigned       *)
(* integers of the digit 1; no whitespace occurs in the alphabet.          *)
(***************************************************************************)
EXTENDS Integers, Sequences, FiniteSets, TLC

VARIABLES
    pc,             \* position of POST: "request", "fetching", "errorBody", "envelope", "catch", "done"
    request,        \* the body of the NextRequest
    geminiApiKey,   \* process.env.GEMINI_API_KEY
    prompt,         \* the prompt sent to the external endpoint
    fetchCalls,     \* number of fetch calls to the external endpoint made by this request
    response,       \* the settled fetch Response of the external endpoint
    text,           \* data.candidates?.[0]?.content?.parts?.[0]?.text
    jsonMatch,      \* text.match(/\{[\s\S]*\}/)
    matchCalls,     \* number of text.match evaluations
    parseCalls,     \* number of JSON.parse evaluations
    analysisResult, \* JSON.parse(jsonMatch[0])
    error,          \* the exception caught by the catch clause
    consoleErrors,  \* what console.error has written
    returned,       \* the NextResponse the handler returned
    \* the mock analyzer analyzeCode of frontend/src/api/analyze.ts
    aPc,            \* position of analyzeCode: "off", "delay", "done"
    aCode,          \* its argument code
    aLanguage,      \* its argument language
    aResult,        \* the AnalysisResult it resolved with
    aPrev,          \* the result of the previous invocation with the same code
    \* the client analyzeCode of frontend/src/api/analyze.ts, which calls /api/analyze
    cPc,            \* position of analyzeCode: "off", "fetching", "reading", "done"
    cRequest,       \* its arguments code and language
    cResponse,      \* the Response fetch resolved with
    cOutcome,       \* how the promise it returned settled
    cLogged,        \* the errors console.error has written
    \* the page components: Home (app/page.tsx), CodeScanAI, and the landing Home
    page,           \* the component that is mounted: "Home", "CodeScanAI", "Landing", "off"
    isAnalyzing,    \* useState(false)
    pageResult,     \* useState(null): result, the result on display
    inflight,       \* the invocations of the analysis handler that are awaiting
    started,        \* number of invocations that went past their guard
    bypassed,       \* whether an invocation was made while the control was disabled
    resultFrom,     \* the invocation whose result is on display (0: none)
    settled,        \* the invocations that completed, in the order they completed
    editorCode,     \* useState: code
    editorLanguage, \* useState: language
    selectedExample,\* useState: the gallery example selected (id, "none")
    showGallery,    \* useState(true)
    pageErrors,     \* number of console.error calls of the page
    \* the component EnhancedEditor (components/enhanced-editor.tsx)
    edMonaco,       \* what editor.getModel()?.getLanguageConfiguration() does in this build
    edMounted,      \* whether editorRef.current holds the editor (onMount has run)
    edIssues,       \* the prop issues
    edModel,        \* the decorations present in the editor, each with its id
    edIds,          \* useState: decorations, the ids of the last call
    edNextId,       \* the next decoration id the editor gives out
    edStyle,        \* number of <style> elements of the component in document.head
    edSeen,         \* whether the effect of the last change of issues reached the editor
    edCrashed,      \* whether the effect has thrown (React then unmounts the component)
    edUpdates       \* number of changes of the prop issues

routeVars == <<pc, request, geminiApiKey, prompt, fetchCalls, response, text, jsonMatch,
               matchCalls, parseCalls, analysisResult, error, consoleErrors, returned>>
analyzerVars == <<aPc, aCode, aLanguage, aResult, aPrev>>
pageVars == <<page, isAnalyzing, pageResult, inflight, started, bypassed, resultFrom, settled,
              editorCode, editorLanguage, selectedExample, showGallery, pageErrors>>

editorVars == <<edMonaco, edMounted, edIssues, edModel, edIds, edNextId, edStyle, edSeen,
                edCrashed, edUpdates>>
clientVars == <<cPc, cRequest, cResponse, cOutcome, cLogged>>
vars == <<routeVars, analyzerVars, clientVars, pageVars, editorVars>>

----------------------------------------------------------------------------
(* Bounds of the model *)

\* longest upstream text enumerated exhaustively over TextChars
MaxTextLen == 4
\* longest prose put before and after a sample JSON object
MaxProseLen == 1
\* longest code, in chunks, given to the mock analyzer exhaustively
MaxCodeChunks == 4
\* most changes of the prop issues of EnhancedEditor
MaxUpdates == 4
\* most invocations of a page's analysis handler that get past its guard
MaxStarts == 2
\* Math.random() is a stream of this period
RandomPeriod == 2

----------------------------------------------------------------------------
(* JavaScript / JSON values *)

QUOTE == "\""

Undefined == [t |-> "undefined", v |-> <<>>]
Null == [t |-> "null", v |-> <<>>]
Str(s) == [t |-> "string", v |-> s]
Num(digits) == [t |-> "number", v |-> digits]
Obj(f) == [t |-> "object", v |-> f]
Arr(a) == [t |-> "array", v |-> a]

\* a stricter test than `!x`: only undefined and null count (x == null)
FalsyNullish(x) == x.t \in {"undefined", "null"}

\* JavaScript's ToBoolean, negated: what `!x` tests
Falsy(x) ==
    \/ x.t \in {"undefined", "null"}
    \/ x.t = "string" /\ x.v = <<>>
    \/ x.t = "number" /\ x.v = <<"0">>

\* `a || b`
OrElse(a, b) == IF Falsy(a) THEN b ELSE a

EmptyMap == [k \in {} |-> Undefined]

\* obj[key] = val on a JavaScript object: a later duplicate key overwrites
SetKey(f, key, val) ==
    [k \in (DOMAIN f) \cup {key} |-> IF k = key THEN val ELSE f[k]]

SeqsUpTo(S, n) == UNION {[1..k -> S] : k \in 0..n}

Min(S) == CHOOSE x \in S : \A y \in S : x <= y
Max(S) == CHOOSE x \in S : \A y \in S : x >= y

----------------------------------------------------------------------------
(* text.match(/\{[\s\S]*\}/): the leftmost "{" that has a "}" somewhere    *)
(* after it, extended greedily to the last "}" of the text; null when      *)
(* there is none.  [\s\S] matches every chunk, braces and quotes included. *)

NoMatch == [matched |-> FALSE, span |-> <<>>]

\* the pattern without its closing brace, /\{[\s\S]*/: from the first "{" to the end
RegexMatchNoClose(s) ==
    LET opens == {i \in 1..Len(s) : s[i] = "{"}
    IN  IF opens = {} THEN NoMatch
        ELSE [matched |-> TRUE, span |-> SubSeq(s, Min(opens), Len(s))]

\* the lazy pattern /\{[\s\S]*?\}/: from the first "{" to the first "}" after it
RegexMatchLazy(s) ==
    LET opens == {i \in 1..Len(s) : s[i] = "{" /\ \E j \in (i+1)..Len(s) : s[j] = "}"}
    IN  IF opens = {} THEN NoMatch
        ELSE LET first == Min(opens)
                 last == Min({j \in (first+1)..Len(s) : s[j] = "}"})
             IN  [matched |-> TRUE, span |-> SubSeq(s, first, last)]

RegexMatch(s) ==
    LET opens == {i \in 1..Len(s) : s[i] = "{" /\ \E j \in (i+1)..Len(s) : s[j] = "}"}
    IN  IF opens = {} THEN NoMatch
        ELSE LET first == Min(opens)
                 last == Max({j \in (first+1)..Len(s) : s[j] = "}"})
             IN  [matched |-> TRUE, span |-> SubSeq(s, first, last)]

----------------------------------------------------------------------------
(* JSON.parse, by recursive descent.  A result is [ok, val, pos]: whether  *)
(* a value was read, the value, and the index after it.                    *)

ParseFail == [ok |-> FALSE, val |-> Undefined, pos |-> 0]
ParseOk(val, pos) == [ok |-> TRUE, val |-> val, pos |-> pos]

\* s[i] is the opening quote; the string runs to the next quote
ParseString(s, i) ==
    LET closers == {j \in (i+1)..Len(s) : s[j] = QUOTE}
    IN  IF closers = {} THEN ParseFail
        ELSE ParseOk(Str(SubSeq(s, i+1, Min(closers) - 1)), Min(closers) + 1)

\* s[i] is a digit; the number is the longest run of digits from i
ParseNumber(s, i) ==
    LET stops == {j \in i..Len(s) : s[j] # "1"}
        end == IF stops = {} THEN Len(s) + 1 ELSE Min(stops)
    IN  ParseOk(Num(SubSeq(s, i, end - 1)), end)

RECURSIVE ParseValue(_, _), ParseMembers(_, _, _), ParseElements(_, _, _)

\* members of an object from index i on, acc the members read so far
ParseMembers(s, i, acc) ==
    IF i > Len(s) \/ s[i] # QUOTE THEN ParseFail
    ELSE LET k == ParseString(s, i)
         IN  IF ~k.ok \/ k.pos > Len(s) \/ s[k.pos] # ":" THEN ParseFail
             ELSE LET m == ParseValue(s, k.pos + 1)
                  IN  IF ~m.ok \/ m.pos > Len(s) THEN ParseFail
                      ELSE IF s[m.pos] = "}"
                           THEN ParseOk(Obj(SetKey(acc, k.val.v, m.val)), m.pos + 1)
                      ELSE IF s[m.pos] = ","
                           THEN ParseMembers(s, m.pos + 1, SetKey(acc, k.val.v, m.val))
                      ELSE ParseFail

\* elements of an array from index i on, acc the elements read so far
ParseElements(s, i, acc) ==
    LET e == ParseValue(s, i)
    IN  IF ~e.ok \/ e.pos > Len(s) THEN ParseFail
        ELSE IF s[e.pos] = "]" THEN ParseOk(Arr(Append(acc, e.val)), e.pos + 1)
        ELSE IF s[e.pos] = "," THEN ParseElements(s, e.pos + 1, Append(acc, e.val))
        ELSE ParseFail

ParseValue(s, i) ==
    IF i > Len(s) THEN ParseFail
    ELSE IF s[i] = "{"
         THEN IF i < Len(s) /\ s[i+1] = "}" THEN ParseOk(Obj(EmptyMap), i + 2)
              ELSE ParseMembers(s, i + 1, EmptyMap)
    ELSE IF s[i] = "["
         THEN IF i < Len(s) /\ s[i+1] = "]" THEN ParseOk(Arr(<<>>), i + 2)
              ELSE ParseElements(s, i + 1, <<>>)
    ELSE IF s[i] = QUOTE THEN ParseString(s, i)
    ELSE IF s[i] = "1" THEN ParseNumber(s, i)
    ELSE ParseFail

\* JSON.parse(s): one value spanning the whole of s, else a SyntaxError
JSONparse(s) ==
    LET r == ParseValue(s, 1)
    IN  IF r.ok /\ r.pos = Len(s) + 1 THEN r ELSE ParseFail

----------------------------------------------------------------------------
(* Inputs: request bodies, the environment, and what the external endpoint *)
(* can answer.                                                             *)

\* values of `code` in the request body: absent, null, "", whitespace only, real code
Codes == {Undefined, Null, Str(<<>>), Str(<<" ">>), Str(<<"eval(x)">>)}
Languages == {Undefined, Str(<<"python">>)}

\* a body request.json() rejects, the JSON value null, or an object {code, language}
RequestBodies ==
    {[kind |-> "malformed", code |-> Undefined, language |-> Undefined],
     [kind |-> "null", code |-> Undefined, language |-> Undefined]}
    \cup {[kind |-> "object", code |-> c, language |-> l] : c \in Codes, l \in Languages}

\* process.env.GEMINI_API_KEY: unset, set to "", set to a key
ApiKeys == {Undefined, Str(<<>>), Str(<<"key">>)}

TextChars == {"{", "}", QUOTE, ":", "1", "score"}
ProseChars == {"prose", "{", "}"}

\* well-formed JSON objects the external model may produce
SampleObjects ==
    { <<"{", QUOTE, "score", QUOTE, ":", "1", "}">>,
      <<"{", QUOTE, "summary", QUOTE, ":", QUOTE, "}", "{", QUOTE, "}">>,
      <<"{", QUOTE, "metrics", QUOTE, ":", "{", "}", "}">>,
      <<"{", QUOTE, "score", QUOTE, ":", "1", ",", QUOTE, "score", QUOTE, ":", "1", "1", "}">>,
      <<"{", QUOTE, "score", QUOTE, ":", "1", ",",
             QUOTE, "issues", QUOTE, ":", "[", "{", "}", "]", ",",
             QUOTE, "metrics", QUOTE, ":", "{", "}", ",",
             QUOTE, "summary", QUOTE, ":", QUOTE, "ok", QUOTE, ",",
             QUOTE, "analysisTime", QUOTE, ":", "1", "}">> }

\* the texts of a reply: every short text, and each sample object wrapped in prose
Texts ==
    SeqsUpTo(TextChars, MaxTextLen)
    \cup {pre \o obj \o post : pre \in SeqsUpTo(ProseChars, MaxProseLen),
                               obj \in SampleObjects,
                               post \in SeqsUpTo(ProseChars, MaxProseLen)}

\* the JSON body of a successful reply, as far as the optional chain
\* data.candidates?.[0]?.content?.parts?.[0]?.text looks into it
EnvelopeKinds ==
    {"null", "noCandidates", "emptyCandidates", "noContent", "noParts", "emptyParts", "noText"}
Envelopes ==
    {[kind |-> k, text |-> Undefined] : k \in EnvelopeKinds}
    \cup {[kind |-> "text", text |-> Str(t)] : t \in Texts}
    \cup {[kind |-> "text", text |-> Num(<<"0">>)], [kind |-> "text", text |-> Num(<<"1">>)]}

NoData == [kind |-> "none", text |-> Undefined]
FailureBodies == {<<"quota", "exceeded">>, <<"permission", "denied">>}

\* a settled fetch: ok or not, whether its body can be read (response.text() or
\* response.json() resolves), the body of a failure, the JSON of a success
FetchResponses ==
    {[ok |-> FALSE, readable |-> TRUE, body |-> b, data |-> NoData] : b \in FailureBodies}
    \cup {[ok |-> FALSE, readable |-> FALSE, body |-> <<>>, data |-> NoData]}
    \cup {[ok |-> TRUE, readable |-> TRUE, body |-> <<>>, data |-> d] : d \in Envelopes}
    \cup {[ok |-> TRUE, readable |-> FALSE, body |-> <<>>, data |-> NoData]}

NoFetchResponse == [ok |-> FALSE, readable |-> FALSE, body |-> <<"none">>, data |-> NoData]

\* how a fetch settles: it rejects (network failure) or resolves with a Response
FetchOutcomes ==
    {[rejects |-> TRUE, resp |-> NoFetchResponse]}
    \cup {[rejects |-> FALSE, resp |-> r] : r \in FetchResponses}

----------------------------------------------------------------------------
(* Responses of the handler *)

\* NextResponse.json(body, {status})
Json(body, status) == [status |-> status, body |-> body]
NotReturned == Json(Undefined, 0)
ErrorBody(msg) == Obj(<<"error">> :> Str(<<msg>>))

\* the fields of AnalysisResult
RequiredFields ==
    {<<"score">>, <<"issues">>, <<"metrics">>, <<"summary">>, <<"analysisTime">>}
OmitsRequiredFields(val) == val.t = "object" /\ ~(RequiredFields \subseteq DOMAIN val.v)

\* the missing-code answer sent with the status of the other failures
CodeRequiredAs500 == Json(ErrorBody("Code is required"), 500)
CodeRequiredResponse == Json(ErrorBody("Code is required"), 400)

\* a locally computed result (the mock analyzer's clean-code result) in place of the error
KeyMissingFallback ==
    Json(Obj(<<"score">> :> Num(<<"8", "5">>) @@ <<"issues">> :> Arr(<<>>)), 200)
KeyMissingResponse == Json(ErrorBody("Gemini API key not configured"), 500)

\* the upstream failure body relayed to the caller
UnavailableRelay(body) == Json(Obj(<<"error">> :> Str(body)), 500)
\* the response to a failed external call whose body `body` was read and logged
UnavailableResponse(body) == Json(ErrorBody("Analysis service unavailable"), 500)

NoAnalysisResponse == Json(ErrorBody("No analysis generated"), 500)
InvalidFormatResponse == Json(ErrorBody("Invalid analysis format"), 500)

\* a success that validates the fields of the result first
SuccessValidated(result) ==
    IF OmitsRequiredFields(result) THEN InvalidFormatResponse ELSE Json(result, 200)
\* NextResponse.json(analysisResult): status 200
SuccessResponse(result) == Json(result, 200)

\* a catch clause that answers as the no-match branch does
CatchAsInvalidFormat(err) == InvalidFormatResponse
\* a catch clause that rethrows: the handler returns nothing
CatchRethrow(err) == NotReturned
\* the catch clause's response to the exception err
CatchResponse(err) == Json(ErrorBody("Internal server error"), 500)

\* the prompt template: language || 'javascript' (twice) and the code, verbatim
Prompt(code, language) ==
    [language |-> OrElse(language, Str(<<"javascript">>)), code |-> code]

\* data.candidates?.[0]?.content?.parts?.[0]?.text, for data other than null
OptionalChainText(data) == IF data.kind = "text" THEN data.text ELSE Undefined

NoError == "none"

----------------------------------------------------------------------------
(* The parts that a specification does not run are switched off *)

NoResult == [t |-> "null", v |-> <<>>]
NoPrev == [language |-> "none", result |-> NoResult]

RouteOff ==
    /\ pc = "off"
    /\ request = [kind |-> "malformed", code |-> Undefined, language |-> Undefined]
    /\ geminiApiKey = Undefined
    /\ prompt = Undefined
    /\ fetchCalls = 0
    /\ response = NoFetchResponse
    /\ text = Undefined
    /\ jsonMatch = NoMatch
    /\ matchCalls = 0
    /\ parseCalls = 0
    /\ analysisResult = Undefined
    /\ error = NoError
    /\ consoleErrors = <<>>
    /\ returned = NotReturned

\* no Response yet
NoClientResponse == [status |-> 0, body |-> Undefined, readable |-> FALSE]
\* the promise of analyzeCode, not settled yet
Pending == [kind |-> "pending", value |-> Undefined]

ClientOff ==
    /\ cPc = "off"
    /\ cRequest = [code |-> <<>>, language |-> "javascript"]
    /\ cResponse = NoClientResponse
    /\ cOutcome = Pending
    /\ cLogged = <<>>

AnalyzerOff ==
    /\ ClientOff
    /\ aPc = "off"
    /\ aCode = <<>>
    /\ aLanguage = "javascript"
    /\ aResult = NoResult
    /\ aPrev = NoPrev

EditorOff ==
    /\ edMonaco = "off"
    /\ edMounted = FALSE
    /\ edIssues = <<>>
    /\ edModel = {}
    /\ edIds = <<>>
    /\ edNextId = 1
    /\ edStyle = 0
    /\ edSeen = FALSE
    /\ edCrashed = FALSE
    /\ edUpdates = 0

PagesOff ==
    /\ EditorOff
    /\ page = "off"
    /\ isAnalyzing = FALSE
    /\ pageResult = NoResult
    /\ inflight = {}
    /\ started = 0
    /\ bypassed = FALSE
    /\ resultFrom = 0
    /\ settled = <<>>
    /\ editorCode = <<>>
    /\ editorLanguage = "javascript"
    /\ selectedExample = "none"
    /\ showGallery = TRUE
    /\ pageErrors = 0

----------------------------------------------------------------------------
(* The handler POST, one action per stretch between two awaits *)

Init ==
    /\ AnalyzerOff
    /\ PagesOff
    /\ pc = "request"
    /\ request \in RequestBodies
    /\ geminiApiKey \in ApiKeys
    /\ prompt = Undefined
    /\ fetchCalls = 0
    /\ response = NoFetchResponse
    /\ text = Undefined
    /\ jsonMatch = NoMatch
    /\ matchCalls = 0
    /\ parseCalls = 0
    /\ analysisResult = Undefined
    /\ error = NoError
    /\ consoleErrors = <<>>
    /\ returned = NotReturned

\* lines 7-70: read the body, check code and the key, build the prompt, call fetch
ReadRequest ==
    /\ UNCHANGED <<analyzerVars, clientVars, pageVars, editorVars>>
    /\ pc = "request"
    /\ IF request.kind = "malformed"
       THEN /\ pc' = "catch"
            /\ error' = "SyntaxError: request.json()"
            /\ UNCHANGED <<prompt, fetchCalls, returned>>
       ELSE IF request.kind = "null"
       THEN /\ pc' = "catch"
            /\ error' = "TypeError: cannot destructure null"
            /\ UNCHANGED <<prompt, fetchCalls, returned>>
       ELSE IF Falsy(request.code)
       THEN /\ pc' = "done"
            /\ returned' = CodeRequiredResponse
            /\ UNCHANGED <<prompt, fetchCalls, error>>
       ELSE IF Falsy(geminiApiKey)
       THEN /\ pc' = "done"
            /\ returned' = KeyMissingResponse
            /\ UNCHANGED <<prompt, fetchCalls, error>>
       ELSE /\ pc' = "fetching"
            /\ prompt' = Prompt(request.code, request.language)
            /\ fetchCalls' = fetchCalls + 1
            /\ UNCHANGED <<error, returned>>
    /\ UNCHANGED <<request, geminiApiKey, response, text, jsonMatch, matchCalls,
                   parseCalls, analysisResult, consoleErrors>>

\* line 54: the fetch settles: it rejects, or resolves with a Response
FetchSettles ==
    /\ UNCHANGED <<analyzerVars, clientVars, pageVars, editorVars>>
    /\ pc = "fetching"
    /\ \E outcome \in FetchOutcomes :
          IF outcome.rejects
          THEN /\ pc' = "catch"
               /\ error' = "TypeError: fetch failed"
               /\ UNCHANGED response
          ELSE /\ response' = outcome.resp
               /\ pc' = IF outcome.resp.ok THEN "envelope" ELSE "errorBody"
               /\ UNCHANGED error
    /\ UNCHANGED <<request, geminiApiKey, prompt, fetchCalls, text, jsonMatch, matchCalls,
                   parseCalls, analysisResult, consoleErrors, returned>>

\* lines 72-75: the reply is not ok: log its body, answer "unavailable"
ReadErrorBody ==
    /\ UNCHANGED <<analyzerVars, clientVars, pageVars, editorVars>>
    /\ pc = "errorBody"
    /\ IF ~response.readable
       THEN /\ pc' = "catch"
            /\ error' = "TypeError: response.text()"
            /\ UNCHANGED <<consoleErrors, returned>>
       ELSE /\ consoleErrors' = Append(consoleErrors, <<"Gemini API error:", response.body>>)
            /\ returned' = UnavailableResponse(response.body)
            /\ pc' = "done"
            /\ UNCHANGED error
    /\ UNCHANGED <<request, geminiApiKey, prompt, fetchCalls, response, text, jsonMatch,
                   matchCalls, parseCalls, analysisResult>>

\* lines 77-92: unwrap the reply, extract the JSON span, parse it, answer
ReadEnvelope ==
    /\ UNCHANGED <<analyzerVars, clientVars, pageVars, editorVars>>
    /\ pc = "envelope"
    /\ LET data == response.data
           t == OptionalChainText(data)
           m == RegexMatch(t.v)
           r == JSONparse(m.span)
       IN  IF ~response.readable
           THEN /\ pc' = "catch"
                /\ error' = "SyntaxError: response.json()"
                /\ UNCHANGED <<text, jsonMatch, matchCalls, parseCalls, analysisResult, returned>>
           ELSE IF data.kind = "null"
           THEN /\ pc' = "catch"
                /\ error' = "TypeError: data is null"
                /\ UNCHANGED <<text, jsonMatch, matchCalls, parseCalls, analysisResult, returned>>
           ELSE IF Falsy(t)
           THEN /\ text' = t
                /\ pc' = "done"
                /\ returned' = NoAnalysisResponse
                /\ UNCHANGED <<jsonMatch, matchCalls, parseCalls, analysisResult, error>>
           ELSE IF t.t # "string"
           THEN /\ text' = t
                /\ pc' = "catch"
                /\ error' = "TypeError: text.match is not a function"
                /\ UNCHANGED <<jsonMatch, matchCalls, parseCalls, analysisResult, returned>>
           ELSE IF ~m.matched
           THEN /\ text' = t
                /\ jsonMatch' = m
                /\ matchCalls' = matchCalls + 1
                /\ pc' = "done"
                /\ returned' = InvalidFormatResponse
                /\ UNCHANGED <<parseCalls, analysisResult, error>>
           ELSE IF ~r.ok
           THEN /\ text' = t
                /\ jsonMatch' = m
                /\ matchCalls' = matchCalls + 1
                /\ parseCalls' = parseCalls + 1
                /\ pc' = "catch"
                /\ error' = "SyntaxError: JSON.parse"
                /\ UNCHANGED <<analysisResult, returned>>
           ELSE /\ text' = t
                /\ jsonMatch' = m
                /\ matchCalls' = matchCalls + 1
                /\ parseCalls' = parseCalls + 1
                /\ analysisResult' = r.val
                /\ pc' = "done"
                /\ returned' = SuccessResponse(r.val)
                /\ UNCHANGED error
    /\ UNCHANGED <<request, geminiApiKey, prompt, fetchCalls, response, consoleErrors>>

\* a catch clause that calls the external endpoint once more after a failed attempt
CatchRetry ==
    /\ UNCHANGED <<analyzerVars, clientVars, pageVars, editorVars>>
    /\ pc = "catch"
    /\ consoleErrors' = Append(consoleErrors, <<"Analysis error:", error>>)
    /\ IF fetchCalls = 1
       THEN /\ pc' = "fetching"
            /\ fetchCalls' = fetchCalls + 1
            /\ UNCHANGED returned
       ELSE /\ pc' = "done"
            /\ returned' = CatchResponse(error)
            /\ UNCHANGED fetchCalls
    /\ UNCHANGED <<request, geminiApiKey, prompt, response, text, jsonMatch,
                   matchCalls, parseCalls, analysisResult, error>>

\* lines 94-97: the catch clause: log the exception, answer 500
Catch ==
    /\ UNCHANGED <<analyzerVars, clientVars, pageVars, editorVars>>
    /\ pc = "catch"
    /\ consoleErrors' = Append(consoleErrors, <<"Analysis error:", error>>)
    /\ returned' = CatchResponse(error)
    /\ pc' = "done"
    /\ UNCHANGED <<request, geminiApiKey, prompt, fetchCalls, response, text, jsonMatch,
                   matchCalls, parseCalls, analysisResult, error>>

Next == ReadRequest \/ FetchSettles \/ ReadErrorBody \/ ReadEnvelope \/ Catch

Spec == Init /\ [][Next]_vars

----------------------------------------------------------------------------
(* Properties of the /analyze handler *)

Whitespace == {" ", "\n", "\t"}
\* a string that is empty or holds whitespace only
IsBlank(x) == x.t = "string" /\ \A i \in 1..Len(x.v) : x.v[i] \in Whitespace

IsErrorBody(b) ==
    /\ b.t = "object"
    /\ DOMAIN b.v = {<<"error">>}
    /\ b.v[<<"error">>].t = "string"

\* the text holds a "{" with a "}" somewhere after it
HasBraceSpan(s) ==
    \E i \in 1..Len(s) : \E j \in (i+1)..Len(s) : s[i] = "{" /\ s[j] = "}"

\* s, as a whole, is one well-formed JSON object
IsJsonObject(s) == Len(s) >= 2 /\ s[1] = "{" /\ JSONparse(s).ok

\* no stretch of s is a well-formed JSON object
IsProse(s) ==
    \A i \in 1..Len(s) : \A j \in (i+1)..Len(s) :
        (s[i] = "{" /\ s[j] = "}") => ~IsJsonObject(SubSeq(s, i, j))

\* s[i..j] is a well-formed JSON object inside no larger one, with prose around it
IsWrappedObject(s, i, j) ==
    /\ s[i] = "{" /\ s[j] = "}"
    /\ IsJsonObject(SubSeq(s, i, j))
    /\ IsProse(SubSeq(s, 1, i - 1))
    /\ IsProse(SubSeq(s, j + 1, Len(s)))
    /\ \A a \in 1..i : \A b \in j..Len(s) :
          (<<a, b>> # <<i, j>> /\ s[a] = "{" /\ s[b] = "}") => ~IsJsonObject(SubSeq(s, a, b))

\* C1 (as claimed): a request whose code is empty or whitespace only is answered
\* with the 400 client-input error, and no external call is made for it.
C1_BlankCodeRejected ==
    (request.kind = "object" /\ IsBlank(request.code))
        => /\ fetchCalls = 0
           /\ pc = "done" => (returned.status = 400 /\ IsErrorBody(returned.body))

\* C2 (as claimed): a span that is not valid JSON, or that parses to an object
\* omitting required AnalysisResult fields, is answered "Invalid analysis format", 500.
C2_MalformedSpanIsInvalidFormat ==
    (pc = "done" /\ jsonMatch.matched
        /\ (~JSONparse(jsonMatch.span).ok \/ OmitsRequiredFields(JSONparse(jsonMatch.span).val)))
        => returned = Json(ErrorBody("Invalid analysis format"), 500)

\* C2 (amended): a span that is not valid JSON is answered "Internal server error",
\* 500; a span that parses is answered with status 200 and the parsed object, also
\* when fields are missing; "Invalid analysis format" answers exactly the texts in
\* which no span was found.
C2_MalformedSpanAmended ==
    pc = "done" =>
        /\ (jsonMatch.matched /\ ~JSONparse(jsonMatch.span).ok)
              => returned = Json(ErrorBody("Internal server error"), 500)
        /\ (jsonMatch.matched /\ JSONparse(jsonMatch.span).ok)
              => (returned.status = 200 /\ returned.body = JSONparse(jsonMatch.span).val)
        /\ (returned.body = ErrorBody("Invalid analysis format"))
              <=> (matchCalls = 1 /\ ~jsonMatch.matched)

C2_Witness ==
    /\ pc = "done"
    /\ jsonMatch.matched
    /\ ~JSONparse(jsonMatch.span).ok
    /\ returned.status = 500

\* C3: a reply text with no "{"..."}" span is answered "Invalid analysis format",
\* 500; and every path of the handler, exceptions included, ends by returning a
\* response: no exception escapes.
C3_NoSpanIsMalformedAndAlwaysReturns ==
    /\ (pc = "done" /\ text.t = "string" /\ text.v # <<>> /\ ~HasBraceSpan(text.v))
          => returned = Json(ErrorBody("Invalid analysis format"), 500)
    /\ pc = "done" => (returned # NotReturned /\ returned.status \in {200, 400, 500})
    /\ (pc = "done" /\ error # NoError)
          => (returned.status = 500 /\ IsErrorBody(returned.body))
    /\ pc = "catch" => (error # NoError /\ returned = NotReturned)

C3_Witness ==
    /\ pc = "done"
    /\ text.t = "string" /\ text.v # <<>> /\ ~HasBraceSpan(text.v)
    /\ \E i \in 1..Len(text.v) : text.v[i] = "}"
    /\ returned.status = 500

\* C4 (as claimed): when the reply text is one well-formed JSON object with
\* arbitrary prose before and after it, the success response carries that object.
C4_RoundTripArbitraryProse ==
    (pc = "done" /\ text.t = "string") =>
        \A i \in 1..Len(text.v) : \A j \in (i+1)..Len(text.v) :
            IsWrappedObject(text.v, i, j)
                => returned = Json(JSONparse(SubSeq(text.v, i, j)).val, 200)

\* C4 (amended): when the reply text is one well-formed JSON object with prose
\* before it that holds no "{" and prose after it that holds no "}", the success
\* response carries that object, unchanged.
C4_RoundTripBraceFreeProse ==
    (pc = "done" /\ text.t = "string") =>
        \A i \in 1..Len(text.v) : \A j \in (i+1)..Len(text.v) :
            ( /\ IsWrappedObject(text.v, i, j)
              /\ \A a \in 1..(i-1) : text.v[a] # "{"
              /\ \A b \in (j+1)..Len(text.v) : text.v[b] # "}" )
                => returned = Json(JSONparse(SubSeq(text.v, i, j)).val, 200)

C4_Witness ==
    /\ pc = "done"
    /\ text.t = "string"
    /\ \E obj \in SampleObjects :
          /\ text.v = <<"prose">> \o obj \o <<"{">>
          /\ \E k \in 2..(Len(obj) - 1) : obj[k] = "}"
          /\ returned = Json(JSONparse(obj).val, 200)

\* C5: with code present and the credential absent, the handler answers the
\* status-500 configuration error, makes no external call and computes no result.
C5_MissingKeyIsConfigError ==
    (request.kind = "object" /\ ~Falsy(request.code) /\ geminiApiKey \in {Undefined, Str(<<>>)})
        => /\ fetchCalls = 0
           /\ analysisResult = Undefined
           /\ pc = "done"
                => returned = Json(ErrorBody("Gemini API key not configured"), 500)

C5_Witness ==
    /\ pc = "done"
    /\ request.kind = "object" /\ request.code = Str(<<"eval(x)">>)
    /\ geminiApiKey = Undefined
    /\ returned.status = 500

\* the chunks of the string values of an error body
ErrorChunks(b) == {b.v[<<"error">>].v[i] : i \in 1..Len(b.v[<<"error">>].v)}

HasNoText(data) ==
    \/ data.kind \in {"noCandidates", "emptyCandidates", "noContent", "noParts",
                      "emptyParts", "noText"}
    \/ data.kind = "text" /\ data.text = Str(<<>>)

\* C7: a successful reply without text is answered "No analysis generated", 500,
\* and neither the extraction nor the parse is attempted.
C7_NoTextIsNoAnalysis ==
    (pc = "done" /\ response.ok /\ response.readable /\ HasNoText(response.data))
        => /\ returned = Json(ErrorBody("No analysis generated"), 500)
           /\ matchCalls = 0
           /\ parseCalls = 0
           /\ jsonMatch = NoMatch
           /\ analysisResult = Undefined

C7_Witness ==
    /\ pc = "done"
    /\ response.ok /\ response.readable
    /\ response.data.kind = "text" /\ response.data.text = Str(<<>>)
    /\ returned.status = 500

\* `code` is missing from a request body that was read: absent, null or empty
CodeMissing == request.kind = "object" /\ request.code \in {Undefined, Null, Str(<<>>)}

\* C8: a response is a success carrying the parsed analysis object or an error
\* {error: string}; its status is 400 exactly when code is missing, and 500 for
\* every other failure.
C8_ResponseShapesAndStatus ==
    pc = "done" =>
        /\ \/ /\ returned.status = 200
              /\ returned.body = analysisResult
              /\ analysisResult.t = "object"
              /\ error = NoError
           \/ /\ returned.status \in {400, 500}
              /\ IsErrorBody(returned.body)
              /\ analysisResult = Undefined
        /\ returned.status = 400 <=> CodeMissing
        /\ (~CodeMissing /\ returned.status # 200) => returned.status = 500

C8_Witness ==
    /\ pc = "done"
    /\ request.kind = "object" /\ request.code = Str(<<>>)
    /\ geminiApiKey = Str(<<"key">>)
    /\ returned.status = 400

\* C9: a request makes at most one external call and at most one parse attempt;
\* a failure ends the request with an error response: no second call, and no
\* result that did not come from this request's own call and parse.
C9_OneCallOneParseFailClosed ==
    /\ fetchCalls <= 1
    /\ matchCalls <= 1
    /\ parseCalls <= 1
    /\ error # NoError => analysisResult = Undefined
    /\ (pc = "done" /\ error # NoError) => returned.status = 500
    /\ (pc = "done" /\ returned.status = 200)
          => (fetchCalls = 1 /\ parseCalls = 1 /\ response.ok /\ error = NoError)

C9_Witness ==
    /\ pc = "done"
    /\ fetchCalls = 1
    /\ parseCalls = 1
    /\ error = "SyntaxError: JSON.parse"
    /\ returned.status = 500

\* the stretch of s from its first "{" to its last "}"
FirstToLastBrace(s) ==
    SubSeq(s, Min({i \in 1..Len(s) : s[i] = "{"}), Max({j \in 1..Len(s) : s[j] = "}"}))

\* C10: no field-level validation: whenever the extracted span parses, the parsed
\* value is the success response, exactly as parsed, also when fields of the
\* AnalysisResult shape are absent.
C10_ParsedValueReturnedAsIs ==
    (pc = "done" /\ text.t = "string" /\ HasBraceSpan(text.v)
        /\ JSONparse(FirstToLastBrace(text.v)).ok)
        => /\ returned.status = 200
           /\ returned.body = JSONparse(FirstToLastBrace(text.v)).val
           /\ analysisResult = returned.body

C10_Witness ==
    /\ pc = "done"
    /\ returned.status = 200
    /\ OmitsRequiredFields(returned.body)
    /\ DOMAIN returned.body.v = {<<"score">>}

----------------------------------------------------------------------------
(* The mock analyzer: analyzeCode of frontend/src/api/analyze.ts.          *)
(*                                                                         *)
(* A code is a sequence of chunks: the substrings the rules look for, the  *)
(* line break, and stretches of other characters.  No substring looked for *)
(* straddles two chunks.                                                   *)

\* the substrings of includes(...) that occur in a chunk
NeedlesIn(chunk) ==
    CASE chunk = "SELECT" -> {"SELECT"}
      [] chunk = "+" -> {"+"}
      [] chunk = "eval(" -> {"eval(", "eval"}
      [] chunk = "evaluate" -> {"eval"}
      [] chunk = "console.log" -> {"console.log"}
      [] OTHER -> {}

\* the number of characters of a chunk
ChunkLength(chunk) ==
    CASE chunk = "SELECT" -> 6
      [] chunk = "+" -> 1
      [] chunk = "eval(" -> 5
      [] chunk = "evaluate" -> 8
      [] chunk = "console.log" -> 11
      [] chunk = "\n" -> 1
      [] chunk = "filler100" -> 100
      [] chunk = "const query = \"" -> 15
      [] chunk = " * FROM users WHERE id = \" " -> 27
      [] chunk = " userId;" -> 8
      [] OTHER -> 1

\* str.includes(needle)
Includes(str, needle) == \E i \in 1..Len(str) : needle \in NeedlesIn(str[i])

\* str.length
RECURSIVE StringLength(_)
StringLength(str) ==
    IF str = <<>> THEN 0 ELSE ChunkLength(Head(str)) + StringLength(Tail(str))

\* str.split('\n')
RECURSIVE SplitLines(_)
SplitLines(str) ==
    LET breaks == {i \in 1..Len(str) : str[i] = "\n"}
    IN  IF breaks = {} THEN <<str>>
        ELSE <<SubSeq(str, 1, Min(breaks) - 1)>>
                 \o SplitLines(SubSeq(str, Min(breaks) + 1, Len(str)))

\* lines.findIndex(line => every needle is included in line) + 1
FindIndexPlusOne(lines, needles) ==
    LET hits == {i \in 1..Len(lines) : \A n \in needles : Includes(lines[i], n)}
    IN  IF hits = {} THEN 0 ELSE Min(hits)

\* lines.findIndex(...) without the + 1: the 0-based index, -1 when none
FindIndexZeroBased(lines, needles) == FindIndexPlusOne(lines, needles) - 1

BaseScore == 85

\* a rule's outcome: whether it fired, the issue it pushes, what it deducts
NotFired == [fired |-> FALSE, issues |-> <<>>, deduct |-> 0]

\* the SQL rule with the line taken 0-based
SqlRuleZeroBased(code) ==
    IF Includes(code, "SELECT") /\ Includes(code, "+")
    THEN [fired |-> TRUE,
          issues |-> << [line |-> FindIndexZeroBased(SplitLines(code), {"SELECT", "+"}),
                         severity |-> "error",
                         message |-> "SQL injection vulnerability detected",
                         type |-> "Security",
                         suggestion |-> "Use parameterized queries or prepared statements"] >>,
          deduct |-> 25]
    ELSE NotFired

\* lines 69-78
SqlRule(code) ==
    IF Includes(code, "SELECT") /\ Includes(code, "+")
    THEN [fired |-> TRUE,
          issues |-> << [line |-> FindIndexPlusOne(SplitLines(code), {"SELECT", "+"}),
                         severity |-> "error",
                         message |-> "SQL injection vulnerability detected",
                         type |-> "Security",
                         suggestion |-> "Use parameterized queries or prepared statements"] >>,
          deduct |-> 25]
    ELSE NotFired

\* the eval rule as an `else if` of the SQL rule
EvalRuleUnlessSql(code) ==
    IF Includes(code, "eval(") /\ ~SqlRule(code).fired
    THEN [fired |-> TRUE,
          issues |-> << [line |-> FindIndexPlusOne(SplitLines(code), {"eval"}),
                         severity |-> "error",
                         message |-> "Use of eval() function is dangerous",
                         type |-> "Security",
                         suggestion |-> "Avoid eval() and use safer alternatives"] >>,
          deduct |-> 20]
    ELSE NotFired

\* the eval rule testing 'eval', as its line attribution does
EvalRuleByEval(code) ==
    IF Includes(code, "eval")
    THEN [fired |-> TRUE,
          issues |-> << [line |-> FindIndexPlusOne(SplitLines(code), {"eval"}),
                         severity |-> "error",
                         message |-> "Use of eval() function is dangerous",
                         type |-> "Security",
                         suggestion |-> "Avoid eval() and use safer alternatives"] >>,
          deduct |-> 20]
    ELSE NotFired

\* lines 80-89: the rule tests 'eval(' and attributes the line by 'eval'
EvalRule(code) ==
    IF Includes(code, "eval(")
    THEN [fired |-> TRUE,
          issues |-> << [line |-> FindIndexPlusOne(SplitLines(code), {"eval"}),
                         severity |-> "error",
                         message |-> "Use of eval() function is dangerous",
                         type |-> "Security",
                         suggestion |-> "Avoid eval() and use safer alternatives"] >>,
          deduct |-> 20]
    ELSE NotFired

\* the console.log rule with the line taken 0-based
ConsoleRuleZeroBased(code) ==
    IF Includes(code, "console.log")
    THEN [fired |-> TRUE,
          issues |-> << [line |-> FindIndexZeroBased(SplitLines(code), {"console.log"}),
                         severity |-> "warning",
                         message |-> "Console.log statements should be removed in production",
                         type |-> "Best Practice",
                         suggestion |-> "Remove or replace with proper logging"] >>,
          deduct |-> 5]
    ELSE NotFired

\* the console.log rule reporting an error
ConsoleRuleAsError(code) ==
    IF Includes(code, "console.log")
    THEN [fired |-> TRUE,
          issues |-> << [line |-> FindIndexPlusOne(SplitLines(code), {"console.log"}),
                         severity |-> "error",
                         message |-> "Console.log statements should be removed in production",
                         type |-> "Best Practice",
                         suggestion |-> "Remove or replace with proper logging"] >>,
          deduct |-> 5]
    ELSE NotFired

\* lines 91-100
ConsoleRule(code) ==
    IF Includes(code, "console.log")
    THEN [fired |-> TRUE,
          issues |-> << [line |-> FindIndexPlusOne(SplitLines(code), {"console.log"}),
                         severity |-> "warning",
                         message |-> "Console.log statements should be removed in production",
                         type |-> "Best Practice",
                         suggestion |-> "Remove or replace with proper logging"] >>,
          deduct |-> 5]
    ELSE NotFired

\* complexity with the thresholds included (>=)
ComplexityInclusive(code) ==
    IF StringLength(code) >= 500 THEN "High"
    ELSE IF StringLength(code) >= 200 THEN "Medium" ELSE "Low"

\* line 106
Complexity(code) ==
    IF StringLength(code) > 500 THEN "High"
    ELSE IF StringLength(code) > 200 THEN "Medium" ELSE "Low"

\* line 107
Maintainability(score) ==
    IF score > 70 THEN "Good" ELSE IF score > 50 THEN "Fair" ELSE "Poor"

\* security derived from the number of issues of any type
SecurityOfAnyIssue(issues) == IF Len(issues) > 0 THEN "Poor" ELSE "Good"

\* line 108
Security(issues) ==
    IF \E i \in 1..Len(issues) : issues[i].type = "Security" THEN "Poor" ELSE "Good"

\* Math.max(0, score)
MaxZero(score) == IF score > 0 THEN score ELSE 0

\* the result built from the outcomes of the three rules, lines 102-113
BuildResult(code, sql, ev, con) ==
    LET issues == sql.issues \o ev.issues \o con.issues
        score == BaseScore - sql.deduct - ev.deduct - con.deduct
    IN  [score |-> MaxZero(score),
         issues |-> issues,
         metrics |-> [complexity |-> Complexity(code),
                      maintainability |-> Maintainability(score),
                      security |-> Security(issues),
                      performance |-> "Good"],
         summary |-> <<"Analysis complete. Found ", Len(issues), " issues requiring attention.">>,
         analysisTime |-> "1.5"]

\* an analyzer whose console.log rule applies to javascript only
MockAnalyzeByLanguage(code, language) ==
    BuildResult(code, SqlRule(code), EvalRule(code),
                IF language = "javascript" THEN ConsoleRule(code) ELSE NotFired)

\* lines 61-114: what analyzeCode(code, language) resolves with
MockAnalyze(code, language) ==
    BuildResult(code, SqlRule(code), EvalRule(code), ConsoleRule(code))

CodeChunks == {"SELECT", "+", "eval(", "evaluate", "console.log", "\n"}
Filler(n) == [i \in 1..n |-> "filler100"]

\* const query = "SELECT * FROM users WHERE id = " + userId;
SqlExampleCode ==
    <<"const query = \"", "SELECT", " * FROM users WHERE id = \" ", "+", " userId;">>

\* the codes analyzed: every short code, short codes followed by 200 and by 500
\* characters of filler, and sample codes
MockCodes ==
    SeqsUpTo(CodeChunks, MaxCodeChunks)
    \cup {c \o Filler(n) : c \in SeqsUpTo(CodeChunks, 1), n \in {2, 5}}
    \cup {SqlExampleCode,
          <<"SELECT", "\n", "+", "\n", "evaluate", "\n", "eval(", "\n", "console.log">>,
          <<"console.log", "\n", "eval(", "\n", "SELECT", "+">>}

\* the language argument: its default 'javascript', or another tag
MockLanguages == {"javascript", "python"}

AnalyzerInit ==
    /\ RouteOff
    /\ PagesOff
    /\ ClientOff
    /\ aPc = "delay"
    /\ aCode \in MockCodes
    /\ aLanguage \in MockLanguages
    /\ aResult = NoResult
    /\ aPrev = NoPrev

\* lines 63-113: the delay elapses, the rules run, the promise resolves
AnalyzeResolves ==
    /\ aPc = "delay"
    /\ aResult' = MockAnalyze(aCode, aLanguage)
    /\ aPc' = "done"
    /\ UNCHANGED <<aCode, aLanguage, aPrev, routeVars, clientVars, pageVars, editorVars>>

\* analyzeCode is called once more with the same code and any language
AnalyzeAgain ==
    /\ aPc = "done"
    /\ aPrev = NoPrev
    /\ aPrev' = [language |-> aLanguage, result |-> aResult]
    /\ aResult' = NoResult
    /\ aLanguage' \in MockLanguages
    /\ aPc' = "delay"
    /\ UNCHANGED <<aCode, routeVars, clientVars, pageVars, editorVars>>

AnalyzerNext == AnalyzeResolves \/ AnalyzeAgain

AnalyzerSpec == AnalyzerInit /\ [][AnalyzerNext]_vars

----------------------------------------------------------------------------
(* Properties of the mock analyzer *)

\* the chunk occurs in the code
HasChunk(str, chunk) == \E i \in 1..Len(str) : str[i] = chunk

TriggersSql(str) == HasChunk(str, "SELECT") /\ HasChunk(str, "+")
TriggersEval(str) == HasChunk(str, "eval(")
TriggersConsole(str) == HasChunk(str, "console.log")

SqlMessage == "SQL injection vulnerability detected"
EvalMessage == "Use of eval() function is dangerous"
ConsoleMessage == "Console.log statements should be removed in production"

Severities(issues) == [i \in 1..Len(issues) |-> issues[i].severity]
Messages(issues) == [i \in 1..Len(issues) |-> issues[i].message]

\* C11: a code that triggers all three rules gets score 35 and exactly three
\* issues, of severities error, error, warning in that order.
C11_AllThreeRules ==
    (aPc = "done" /\ TriggersSql(aCode) /\ TriggersEval(aCode) /\ TriggersConsole(aCode))
        => /\ aResult.score = 35
           /\ Len(aResult.issues) = 3
           /\ Severities(aResult.issues) = <<"error", "error", "warning">>

C11_Witness ==
    /\ aPc = "done"
    /\ aCode = <<"console.log", "\n", "eval(", "\n", "SELECT", "+">>
    /\ aResult.score = 35
    /\ Len(aResult.issues) = 3

\* C12: a code that triggers none of the three rules gets score 85, no issues,
\* security Good and performance Good.
C12_CleanCode ==
    (aPc = "done" /\ ~TriggersSql(aCode) /\ ~TriggersEval(aCode) /\ ~TriggersConsole(aCode))
        => /\ aResult.score = 85
           /\ aResult.issues = <<>>
           /\ aResult.metrics.security = "Good"
           /\ aResult.metrics.performance = "Good"

C12_Witness ==
    /\ aPc = "done"
    /\ aCode = <<"SELECT", "\n", "evaluate">>
    /\ aResult.score = 85

\* C13: the single-line code  const query = "SELECT * FROM users WHERE id = " + userId;
\* gets exactly one issue: severity error, line 1, type Security, a message
\* containing "SQL injection"; and score 60.
C13_SqlExampleEndToEnd ==
    (aPc = "done" /\ aCode = SqlExampleCode)
        => /\ Len(aResult.issues) = 1
           /\ aResult.issues[1].severity = "error"
           /\ aResult.issues[1].line = 1
           /\ aResult.issues[1].type = "Security"
           /\ aResult.issues[1].message = "SQL injection vulnerability detected"
           /\ aResult.score = 60

C13_Witness ==
    /\ aPc = "done"
    /\ aCode = SqlExampleCode
    /\ Len(aResult.issues) = 1

\* C14: a second invocation with the same code, under any language tag, returns a
\* result equal to the first in score, issues, metrics and summary.
C14_LanguageIndependent ==
    (aPc = "done" /\ aPrev # NoPrev)
        => /\ aResult.score = aPrev.result.score
           /\ aResult.issues = aPrev.result.issues
           /\ aResult.metrics = aPrev.result.metrics
           /\ aResult.summary = aPrev.result.summary

C14_Witness ==
    /\ aPc = "done"
    /\ aPrev # NoPrev
    /\ aPrev.language = "javascript"
    /\ aLanguage = "python"
    /\ TriggersConsole(aCode)
    /\ aResult.score = aPrev.result.score

\* the 1-based index of the first line holding all the chunks, 0 when there is none
FirstLineWith(str, chunks) ==
    LET lines == SplitLines(str)
        hits == {i \in 1..Len(lines) : \A c \in chunks : HasChunk(lines[i], c)}
    IN  IF hits = {} THEN 0 ELSE Min(hits)

\* C15 (as claimed): the line of a rule's issue is the 1-based index of the first
\* line that contains the rule's triggering substring (SELECT together with +,
\* eval(, console.log), and 0 when no single line does.
C15_LineOfTriggeringSubstring ==
    aPc = "done" =>
        \A k \in 1..Len(aResult.issues) :
            LET issue == aResult.issues[k]
            IN  /\ issue.message = SqlMessage
                      => issue.line = FirstLineWith(aCode, {"SELECT", "+"})
                /\ issue.message = EvalMessage
                      => issue.line = FirstLineWith(aCode, {"eval("})
                /\ issue.message = ConsoleMessage
                      => issue.line = FirstLineWith(aCode, {"console.log"})

\* C16: complexity is High above 500 characters, Medium above 200, else Low;
\* maintainability is Good above a final score of 70, Fair above 50, else Poor;
\* security is Poor exactly when an issue has type Security; performance is Good.
C16_DerivedMetrics ==
    aPc = "done" =>
        /\ aResult.metrics.complexity =
              (IF StringLength(aCode) > 500 THEN "High"
               ELSE IF StringLength(aCode) > 200 THEN "Medium" ELSE "Low")
        /\ aResult.metrics.maintainability =
              (IF aResult.score > 70 THEN "Good"
               ELSE IF aResult.score > 50 THEN "Fair" ELSE "Poor")
        /\ aResult.metrics.security = "Poor"
              <=> (\E k \in 1..Len(aResult.issues) : aResult.issues[k].type = "Security")
        /\ aResult.metrics.security \in {"Poor", "Good"}
        /\ aResult.metrics.performance = "Good"

C16_Witness ==
    /\ aPc = "done"
    /\ StringLength(aCode) = 200
    /\ aResult.metrics.complexity = "Low"
    /\ aResult.metrics.maintainability = "Good"

\* C17: each rule adds at most one issue and its own deduction (25, 20, 5)
\* whatever the other two do: the score is max(0, 85 - the deductions of the
\* triggered rules), within 0..85, and the issues come in the order SQL, eval,
\* console.log.
C17_RulesIndependentlyAdditive ==
    aPc = "done" =>
        LET expected == 85 - (IF TriggersSql(aCode) THEN 25 ELSE 0)
                           - (IF TriggersEval(aCode) THEN 20 ELSE 0)
                           - (IF TriggersConsole(aCode) THEN 5 ELSE 0)
        IN  /\ aResult.score = (IF expected > 0 THEN expected ELSE 0)
            /\ aResult.score \in 0..85
            /\ Messages(aResult.issues) =
                   (IF TriggersSql(aCode) THEN <<SqlMessage>> ELSE <<>>)
                   \o (IF TriggersEval(aCode) THEN <<EvalMessage>> ELSE <<>>)
                   \o (IF TriggersConsole(aCode) THEN <<ConsoleMessage>> ELSE <<>>)

C17_Witness ==
    /\ aPc = "done"
    /\ TriggersSql(aCode) /\ TriggersEval(aCode) /\ ~TriggersConsole(aCode)
    /\ aResult.score = 40
    /\ Len(aResult.issues) = 2

----------------------------------------------------------------------------
(* The page components: Home (frontend/src/app/page.tsx), CodeScanAI and   *)
(* the landing Home.  Each invocation of the analysis handler is a record  *)
(* in inflight from its first await until its continuation runs; the state *)
(* updates of one continuation are one step.  A value of Math.random() is  *)
(* r / RandomDen for r in Randoms; analysisTime is held in the same unit.  *)

RandomDen == 60
Randoms == {0, 29, 59}

\* the n-th value of Math.random() in the stream rs
Rand(rs, n) == rs[((n - 1) % RandomPeriod) + 1]
\* Math.floor(Math.random() * n) for the random value r
Floor(r, n) == (r * n) \div RandomDen

TrimChars == {" ", "\t", "\n"}

RECURSIVE TrimStart(_)
TrimStart(str) ==
    IF str # <<>> /\ Head(str) \in TrimChars THEN TrimStart(Tail(str)) ELSE str

RECURSIVE TrimEnd(_)
TrimEnd(str) ==
    IF str # <<>> /\ str[Len(str)] \in TrimChars
    THEN TrimEnd(SubSeq(str, 1, Len(str) - 1)) ELSE str

\* code.trim()
Trim(str) == TrimEnd(TrimStart(str))

\* page.tsx line 28
SAMPLE_CODE == <<"SAMPLE_CODE">>

\* part_002 lines 6-8
LandingCode == <<"// Example vulnerable code", "\n", "const query = \"", "SELECT",
                 " * FROM users WHERE id = \" ", "+", " userId;", "\n", "db.query(query);">>

\* part_002 lines 9-10: issues and score before the first analysis
LandingInitial == [issues |-> <<>>, score |-> 0]

\* part_002 lines 16-20
LandingResult ==
    [issues |-> << [line |-> 2, severity |-> "error",
                    message |-> "SQL injection vulnerability", type |-> "Security"],
                   [line |-> 2, severity |-> "warning",
                    message |-> "Unsanitized user input", type |-> "Security"] >>,
     score |-> 45]

\* the examples of the gallery
GalleryIds == {"1", "2", "3", "4", "5", "6"}
ExampleLanguage(id) ==
    CASE id \in {"1", "2", "5"} -> "javascript"
      [] id \in {"3", "6"} -> "python"
      [] id = "4" -> "typescript"
ExampleCode(id) == <<"example ", id>>

\* the examples selected here: two with a predefined analysis, one without
SelectableExamples == {"1", "3", "4"}

EXAMPLE_ANALYSES ==
    [id \in {"1", "2", "3"} |->
        CASE id = "1" ->
               [score |-> 45,
                issues |-> << [line |-> 1, column |-> 1, severity |-> "error",
                               message |-> <<"SQL injection vulnerability detected">>,
                               type |-> "Security"],
                              [line |-> 1, column |-> 1, severity |-> "warning",
                               message |-> <<"Unsanitized user input">>,
                               type |-> "Security"],
                              [line |-> 3, column |-> 1, severity |-> "info",
                               message |-> <<"Consider using parameterized queries">>,
                               type |-> "Best Practice"] >>,
                metrics |-> [complexity |-> "Low", maintainability |-> "Poor",
                             security |-> "Critical", performance |-> "Good"],
                summary |-> <<"Critical security vulnerabilities found that could lead to data breaches.">>,
                analysisTime |-> 48]
          [] id = "2" ->
               [score |-> 65,
                issues |-> << [line |-> 5, column |-> 1, severity |-> "warning",
                               message |-> <<"Missing cleanup in useEffect">>,
                               type |-> "Performance"],
                              [line |-> 5, column |-> 1, severity |-> "info",
                               message |-> <<"Potential memory leak detected">>,
                               type |-> "Performance"] >>,
                metrics |-> [complexity |-> "Medium", maintainability |-> "Fair",
                             security |-> "Good", performance |-> "Poor"],
                summary |-> <<"Memory leak issues that could impact application performance over time.">>,
                analysisTime |-> 72]
          [] id = "3" ->
               [score |-> 72,
                issues |-> << [line |-> 2, column |-> 1, severity |-> "warning",
                               message |-> <<"O(n^2) time complexity detected">>,
                               type |-> "Performance"],
                              [line |-> 2, column |-> 1, severity |-> "info",
                               message |-> <<"Consider using Set for O(1) lookups">>,
                               type |-> "Optimization"] >>,
                metrics |-> [complexity |-> "High", maintainability |-> "Good",
                             security |-> "Good", performance |-> "Poor"],
                summary |-> <<"Inefficient algorithm that can be optimized for better performance.">>,
                analysisTime |-> 36] ]

Digits == <<"1", "2", "3", "4", "5">>
SeverityNames == <<"error", "warning", "info">>
TypeNames == <<"Security", "Performance", "Style", "Best Practice", "Maintainability">>

\* part_001 lines 147-153: the i-th issue; the stream's value 1 went to numIssues
RandomIssue(rs, i) ==
    [line |-> Floor(Rand(rs, 4*i - 2), 20) + 1,
     column |-> Floor(Rand(rs, 4*i - 1), 30) + 1,
     severity |-> SeverityNames[Floor(Rand(rs, 4*i), Len(SeverityNames)) + 1],
     message |-> <<"Sample issue ", Digits[i], ": This needs attention">>,
     type |-> TypeNames[Floor(Rand(rs, 4*i + 1), Len(TypeNames)) + 1]]

\* part_001 lines 139-169: the result generated for custom code
PlaceholderResult(rs) ==
    LET numIssues == Floor(Rand(rs, 1), 5) + 1
        issues == [i \in 1..numIssues |-> RandomIssue(rs, i)]
        base == 4 * numIssues + 1
    IN  [score |-> Max({20, 100 - Len(issues) * 15}),
         issues |-> issues,
         metrics |->
            [complexity |-> <<"Low", "Medium", "High">>[Floor(Rand(rs, base + 1), 3) + 1],
             maintainability |->
                 <<"Poor", "Fair", "Good", "Excellent">>[Floor(Rand(rs, base + 2), 4) + 1],
             security |->
                 <<"Critical", "Poor", "Fair", "Good", "Excellent">>[Floor(Rand(rs, base + 3), 5) + 1],
             performance |->
                 <<"Poor", "Fair", "Good", "Excellent">>[Floor(Rand(rs, base + 4), 4) + 1]],
         summary |-> <<"Analysis complete. Found ", Digits[Len(issues)],
                       " issues requiring attention.">>,
         analysisTime |-> Rand(rs, base + 5) * 2 + RandomDen \div 2]

\* a result that is generated whatever example is selected
CodeScanResultIgnoringExample(example, rs) == PlaceholderResult(rs)

\* part_001 lines 135-170: the result set after the delay by an invocation that
\* captured the selected example `example`
CodeScanResult(example, rs) ==
    IF example # "none" /\ example \in DOMAIN EXAMPLE_ANALYSES
    THEN EXAMPLE_ANALYSES[example]
    ELSE PlaceholderResult(rs)

\* bodies that response.json() yields on Home: error bodies of the route and results
HomeBodies ==
    {CodeRequiredResponse.body, InvalidFormatResponse.body}
    \cup {JSONparse(obj).val :
            obj \in {<<"{", QUOTE, "score", QUOTE, ":", "1", "}">>,
                     <<"{", QUOTE, "metrics", QUOTE, ":", "{", "}", "}">>,
                     <<"{", QUOTE, "score", QUOTE, ":", "1", ",",
                            QUOTE, "issues", QUOTE, ":", "[", "{", "}", "]", ",",
                            QUOTE, "metrics", QUOTE, ":", "{", "}", ",",
                            QUOTE, "summary", QUOTE, ":", QUOTE, "ok", QUOTE, ",",
                            QUOTE, "analysisTime", QUOTE, ":", "1", "}">>,
                     <<"{", QUOTE, "score", QUOTE, ":", "1", ",",
                            QUOTE, "issues", QUOTE, ":", "[", "{", "}", "]", ",",
                            QUOTE, "metrics", QUOTE, ":", "{", "}", ",",
                            QUOTE, "summary", QUOTE, ":", QUOTE, "ok", QUOTE, ",",
                            QUOTE, "analysis_time_ms", QUOTE, ":", "1", "}">>}}

\* x == null: null or undefined
IsNullish(x) == x.t \in {"undefined", "null"}

\* x[key] for x other than null and undefined
Get(x, key) == IF x.t = "object" /\ key \in DOMAIN x.v THEN x.v[key] ELSE Undefined

\* page.tsx lines 151-243: whether rendering `res` as result throws a TypeError
\* (a property read on undefined or null, or a call of what is no function).
\* What React does with the component after such a render is not modelled.
RenderThrows(res) ==
    IF Falsy(res) THEN FALSE                               \* line 151: result &&
    ELSE LET issues == Get(res, <<"issues">>)
             metrics == Get(res, <<"metrics">>)
             time == Get(res, <<"analysis_time_ms">>)
         IN  \/ IsNullish(issues)                          \* line 169: result.issues.length
             \/ IsNullish(metrics)                         \* line 175: result.metrics.loc
             \/ time.t # "number"                          \* line 181: .toFixed(0)
             \/ /\ issues.t # "array"                      \* line 214: result.issues.map
                /\ ~(issues.t = "string" /\ issues.v = <<>>)
             \/ /\ issues.t = "array"                      \* line 220: issue.severity
                /\ \E i \in 1..Len(issues.v) : IsNullish(issues.v[i])

\* codes typed into the editor of CodeScanAI
EditedCodes == {<<>>, <<" ", "\n">>, <<" ", "x", " ">>}

Pages == {"Home", "CodeScanAI", "Landing"}

\* a trigger control that is always enabled
ControlNeverDisabled == FALSE

\* the `disabled` attribute of the trigger control: page.tsx line 131,
\* part_001 line 400, part_002 lines 77 and 143
ControlDisabled ==
    IF page = "CodeScanAI" THEN isAnalyzing \/ Trim(editorCode) = <<>> ELSE isAnalyzing

PagesInit ==
    /\ RouteOff
    /\ AnalyzerOff
    /\ EditorOff
    /\ page \in Pages
    /\ isAnalyzing = FALSE
    /\ pageResult = (IF page = "Landing" THEN LandingInitial ELSE NoResult)
    /\ inflight = {}
    /\ started = 0
    /\ bypassed = FALSE
    /\ resultFrom = 0
    /\ settled = <<>>
    /\ editorCode = (CASE page = "Home" -> SAMPLE_CODE
                       [] page = "CodeScanAI" -> <<>>
                       [] page = "Landing" -> LandingCode)
    /\ editorLanguage = (IF page = "Home" THEN "python" ELSE "javascript")
    /\ selectedExample = "none"
    /\ showGallery = TRUE
    /\ pageErrors = 0

\* an invocation reaches its await: it is in flight, with the example its closure holds
Awaiting == inflight \cup {[id |-> started + 1, example |-> selectedExample]}

\* page.tsx lines 33-37: handleAnalyze up to the await of fetch
HandleAnalyzeStarts ==
    /\ started < MaxStarts
    /\ isAnalyzing' = TRUE
    /\ inflight' = Awaiting
    /\ started' = started + 1
    /\ UNCHANGED <<pageResult, resultFrom, settled, editorCode, editorLanguage,
                   selectedExample, showGallery, pageErrors, routeVars, analyzerVars,
                   clientVars, editorVars>>

\* the Analyze button of Home is clicked
HomeClick ==
    /\ page = "Home"
    /\ ~ControlDisabled
    /\ HandleAnalyzeStarts
    /\ UNCHANGED <<page, bypassed>>

\* handleAnalyze is invoked while the button is disabled
HomeInvoke ==
    /\ page = "Home"
    /\ ControlDisabled
    /\ HandleAnalyzeStarts
    /\ bypassed' = TRUE
    /\ UNCHANGED page

\* a continuation that stores the body only for the latest invocation
HomeRespondsFenced ==
    /\ page = "Home"
    /\ \E r \in inflight, body \in HomeBodies :
          /\ IF r.id = started
             THEN pageResult' = body /\ resultFrom' = r.id
             ELSE UNCHANGED <<pageResult, resultFrom>>
          /\ isAnalyzing' = (inflight # {r})
          /\ inflight' = inflight \ {r}
          /\ settled' = Append(settled, [id |-> r.id, ok |-> TRUE])
    /\ UNCHANGED <<page, started, bypassed, editorCode, editorLanguage, selectedExample,
                   showGallery, pageErrors, routeVars, analyzerVars,
                   clientVars, editorVars>>

\* page.tsx lines 43-44 and 47-49: the response of an invocation arrived and its
\* body was read; setResult(data), then finally setIsAnalyzing(false)
HomeResponds ==
    /\ page = "Home"
    /\ \E r \in inflight, body \in HomeBodies :
          /\ pageResult' = body
          /\ resultFrom' = r.id
          /\ isAnalyzing' = FALSE
          /\ inflight' = inflight \ {r}
          /\ settled' = Append(settled, [id |-> r.id, ok |-> TRUE])
    /\ UNCHANGED <<page, started, bypassed, editorCode, editorLanguage, selectedExample,
                   showGallery, pageErrors, routeVars, analyzerVars,
                   clientVars, editorVars>>

\* a failure path without the finally clause: isAnalyzing is left as it is
HomeFailsNoFinally ==
    /\ page = "Home"
    /\ \E r \in inflight :
          /\ inflight' = inflight \ {r}
          /\ settled' = Append(settled, [id |-> r.id, ok |-> FALSE])
    /\ pageErrors' = pageErrors + 1
    /\ UNCHANGED <<page, isAnalyzing, pageResult, resultFrom, started, bypassed, editorCode,
                   editorLanguage, selectedExample, showGallery, routeVars, analyzerVars,
                   clientVars, editorVars>>

\* page.tsx lines 45-49: fetch or response.json() rejected; catch logs, finally
\* setIsAnalyzing(false)
HomeFails ==
    /\ page = "Home"
    /\ \E r \in inflight :
          /\ inflight' = inflight \ {r}
          /\ settled' = Append(settled, [id |-> r.id, ok |-> FALSE])
    /\ pageErrors' = pageErrors + 1
    /\ isAnalyzing' = FALSE
    /\ UNCHANGED <<page, pageResult, resultFrom, started, bypassed, editorCode,
                   editorLanguage, selectedExample, showGallery, routeVars, analyzerVars,
                   clientVars, editorVars>>

\* analyzeCode without its first line, the early return on blank code
AnalyzeCodeStartsUnguarded ==
    /\ started < MaxStarts
    /\ isAnalyzing' = TRUE
    /\ pageResult' = NoResult
    /\ resultFrom' = 0
    /\ inflight' = Awaiting
    /\ started' = started + 1
    /\ UNCHANGED <<settled, editorCode, editorLanguage, selectedExample, showGallery,
                   pageErrors, routeVars, analyzerVars,
                   clientVars, editorVars>>

\* part_001 lines 126-133: analyzeCode up to the await of the delay
AnalyzeCodeStarts ==
    /\ started < MaxStarts
    /\ IF Trim(editorCode) = <<>>
       THEN UNCHANGED <<isAnalyzing, pageResult, resultFrom, inflight, started>>
       ELSE /\ isAnalyzing' = TRUE
            /\ pageResult' = NoResult
            /\ resultFrom' = 0
            /\ inflight' = Awaiting
            /\ started' = started + 1
    /\ UNCHANGED <<settled, editorCode, editorLanguage, selectedExample, showGallery,
                   pageErrors, routeVars, analyzerVars,
                   clientVars, editorVars>>

\* the Analyze Code button of CodeScanAI is clicked
CodeScanClick ==
    /\ page = "CodeScanAI"
    /\ ~ControlDisabled
    /\ AnalyzeCodeStarts
    /\ UNCHANGED <<page, bypassed>>

\* analyzeCode is invoked while the button is disabled
CodeScanInvoke ==
    /\ page = "CodeScanAI"
    /\ ControlDisabled
    /\ AnalyzeCodeStarts
    /\ bypassed' = TRUE
    /\ UNCHANGED page

\* the streams Math.random() can give
RandomStreams == [1..RandomPeriod -> Randoms]
\* the two constant streams: every draw the least, every draw the greatest
ConstantStreams == {[n \in 1..RandomPeriod |-> r] : r \in {Min(Randoms), Max(Randoms)}}

\* part_001 lines 135-172: the delay of an invocation elapsed, Math.random()
\* giving one of `streams`
CodeScanDelayElapsesDrawing(streams) ==
    /\ page = "CodeScanAI"
    /\ \E r \in inflight, rs \in streams :
          /\ pageResult' = CodeScanResult(r.example, rs)
          /\ resultFrom' = r.id
          /\ inflight' = inflight \ {r}
          /\ settled' = Append(settled, [id |-> r.id, ok |-> TRUE])
    /\ isAnalyzing' = FALSE
    /\ UNCHANGED <<page, started, bypassed, editorCode, editorLanguage, selectedExample,
                   showGallery, pageErrors, routeVars, analyzerVars,
                   clientVars, editorVars>>

CodeScanDelayElapses == CodeScanDelayElapsesDrawing(RandomStreams)

\* the same step with the draws of a constant stream
CodeScanDelayElapsesConstant == CodeScanDelayElapsesDrawing(ConstantStreams)

\* a card of the gallery is clicked: setSelectedExample(example), and when the
\* state changed the effect of part_001 lines 118-124 runs
SelectExample ==
    /\ page = "CodeScanAI"
    /\ showGallery
    /\ \E id \in SelectableExamples :
          IF id # selectedExample
          THEN /\ selectedExample' = id
               /\ editorCode' = ExampleCode(id)
               /\ editorLanguage' = ExampleLanguage(id)
               /\ showGallery' = FALSE
          ELSE UNCHANGED <<selectedExample, editorCode, editorLanguage, showGallery>>
    /\ UNCHANGED <<page, isAnalyzing, pageResult, inflight, started, bypassed, resultFrom,
                   settled, pageErrors, routeVars, analyzerVars,
                   clientVars, editorVars>>

\* part_001 line 428: the editor reports a change, setCode
EditCode ==
    /\ page = "CodeScanAI"
    /\ editorCode' \in EditedCodes
    /\ UNCHANGED <<page, isAnalyzing, pageResult, inflight, started, bypassed, resultFrom,
                   settled, editorLanguage, selectedExample, showGallery, pageErrors,
                   routeVars, analyzerVars,
                   clientVars, editorVars>>

\* part_001 line 225
ToggleGallery ==
    /\ page = "CodeScanAI"
    /\ showGallery' = ~showGallery
    /\ UNCHANGED <<page, isAnalyzing, pageResult, inflight, started, bypassed, resultFrom,
                   settled, editorCode, editorLanguage, selectedExample, pageErrors,
                   routeVars, analyzerVars,
                   clientVars, editorVars>>

\* part_002 lines 12-14: analyzeCode of the landing page up to the await
LandingStarts ==
    /\ started < MaxStarts
    /\ isAnalyzing' = TRUE
    /\ inflight' = Awaiting
    /\ started' = started + 1
    /\ UNCHANGED <<pageResult, resultFrom, settled, editorCode, editorLanguage,
                   selectedExample, showGallery, pageErrors, routeVars, analyzerVars,
                   clientVars, editorVars>>

\* one of the two buttons of the landing page is clicked
LandingClick ==
    /\ page = "Landing"
    /\ ~ControlDisabled
    /\ LandingStarts
    /\ UNCHANGED <<page, bypassed>>

\* analyzeCode of the landing page is invoked while its buttons are disabled
LandingInvoke ==
    /\ page = "Landing"
    /\ ControlDisabled
    /\ LandingStarts
    /\ bypassed' = TRUE
    /\ UNCHANGED page

\* part_002 lines 16-21
LandingDelayElapses ==
    /\ page = "Landing"
    /\ \E r \in inflight :
          /\ resultFrom' = r.id
          /\ inflight' = inflight \ {r}
          /\ settled' = Append(settled, [id |-> r.id, ok |-> TRUE])
    /\ pageResult' = LandingResult
    /\ isAnalyzing' = FALSE
    /\ UNCHANGED <<page, started, bypassed, editorCode, editorLanguage, selectedExample,
                   showGallery, pageErrors, routeVars, analyzerVars,
                   clientVars, editorVars>>

PagesNext ==
    \/ HomeClick \/ HomeInvoke \/ HomeResponds \/ HomeFails
    \/ CodeScanClick \/ CodeScanInvoke \/ CodeScanDelayElapses
    \/ SelectExample \/ EditCode \/ ToggleGallery
    \/ LandingClick \/ LandingInvoke \/ LandingDelayElapses

PagesSpec == PagesInit /\ [][PagesNext]_vars

\* the pages with Math.random() restricted to the constant streams: progress
\* does not depend on the values drawn
PagesLiveNext ==
    \/ HomeClick \/ HomeInvoke \/ HomeResponds \/ HomeFails
    \/ CodeScanClick \/ CodeScanInvoke \/ CodeScanDelayElapsesConstant
    \/ SelectExample \/ EditCode \/ ToggleGallery
    \/ LandingClick \/ LandingInvoke \/ LandingDelayElapses

\* a timer that was set fires, and a request that was sent settles
PagesFairness ==
    /\ WF_vars(HomeResponds \/ HomeFails)
    /\ WF_vars(CodeScanDelayElapsesConstant)
    /\ WF_vars(LandingDelayElapses)

PagesLiveSpec == PagesInit /\ [][PagesLiveNext]_vars /\ PagesFairness

----------------------------------------------------------------------------
(* Properties of the page components *)

\* C18 (as claimed): whenever an analysis is in flight (isAnalyzing is true) the
\* held result is null, and after a failed request no result is held either.
C18_StartDiscardsPreviousResult ==
    page \in {"Home", "CodeScanAI"} =>
        /\ isAnalyzing => pageResult = NoResult
        /\ (settled # <<>> /\ ~settled[Len(settled)].ok) => pageResult = NoResult

\* C19: when every analysis was started through the trigger control, at most one
\* invocation is in flight, and isAnalyzing (which disables the control) is true
\* for as long as it is.
C19_AtMostOneInFlight ==
    ~bypassed =>
        /\ Cardinality(inflight) <= 1
        /\ inflight # {} <=> isAnalyzing
        /\ isAnalyzing => ControlDisabled

C19_Witness ==
    /\ ~bypassed
    /\ started = 2
    /\ Len(settled) = 1
    /\ Cardinality(inflight) = 1
    /\ isAnalyzing

\* the invocations of Home whose response arrived, in the order of arrival
Arrived == SelectSeq(settled, LAMBDA c : c.ok)

\* C20: on Home nothing fences a response: the result on display is that of the
\* response that arrived last, also when an invocation started later has
\* answered before it; and every completion sets isAnalyzing to false, also
\* while another invocation is in flight.
C20_NoRequestFencing ==
    /\ [](page = "Home" /\ Arrived # <<>>
            => resultFrom = Arrived[Len(Arrived)].id)
    /\ [][(page = "Home" /\ Len(settled') > Len(settled)) => ~isAnalyzing']_vars

C20_Witness ==
    /\ page = "Home"
    /\ bypassed
    /\ settled = <<[id |-> 2, ok |-> TRUE], [id |-> 1, ok |-> TRUE]>>
    /\ resultFrom = 1
    /\ ~isAnalyzing

----------------------------------------------------------------------------
(* Further properties of the mock analyzer *)

\* C28: metrics.security is Good exactly when the score is at least 80, which is
\* when neither the SQL rule nor the eval rule triggered, and Poor exactly when
\* the score is at most 65.
C28_ScoreAndSecurityTied ==
    aPc = "done" =>
        /\ aResult.metrics.security = "Good" <=> aResult.score >= 80
        /\ aResult.metrics.security = "Poor" <=> aResult.score <= 65
        /\ aResult.score >= 80 <=> (~TriggersSql(aCode) /\ ~TriggersEval(aCode))

C28_Witness ==
    /\ aPc = "done"
    /\ TriggersConsole(aCode)
    /\ aResult.score = 80
    /\ aResult.metrics.security = "Good"

\* C29: every issue's line lies in 0..(number of lines of the code); the issues of
\* the eval rule and of the console.log rule have line at least 1; line 0 occurs
\* only on the SQL rule's issue, when SELECT and + are in the code but on no
\* common line.
C29_LineRange ==
    aPc = "done" =>
        \A k \in 1..Len(aResult.issues) :
            LET issue == aResult.issues[k]
            IN  /\ issue.line \in 0..Len(SplitLines(aCode))
                /\ issue.message \in {EvalMessage, ConsoleMessage} => issue.line >= 1
                /\ issue.line = 0 =>
                      /\ issue.message = SqlMessage
                      /\ HasChunk(aCode, "SELECT") /\ HasChunk(aCode, "+")
                      /\ FirstLineWith(aCode, {"SELECT", "+"}) = 0

C29_Witness ==
    /\ aPc = "done"
    /\ Len(aResult.issues) = 3
    /\ aResult.issues[1].line = 0
    /\ aResult.issues[2].line >= 1
    /\ aResult.issues[3].line >= 1

----------------------------------------------------------------------------
(* Further properties of the page components *)

\* the step is the continuation of an invocation
Completes == Len(settled') > Len(settled)
\* the invocation whose continuation the step is
Completing == CHOOSE r \in inflight : r \notin inflight'

HasPredefined(id) == id \in {"1", "2", "3"}

IsPlaceholder(res) ==
    /\ Len(res.issues) \in 1..5
    /\ \A k \in 1..Len(res.issues) :
          /\ res.issues[k].line \in 1..20
          /\ res.issues[k].column \in 1..30
          /\ res.issues[k].severity \in {"error", "warning", "info"}
    /\ res.score = (IF 100 - 15 * Len(res.issues) > 20
                    THEN 100 - 15 * Len(res.issues) ELSE 20)
    /\ res.score \in 0..100
    /\ \A id \in DOMAIN EXAMPLE_ANALYSES : res # EXAMPLE_ANALYSES[id]

\* C25: in CodeScanAI the result an analysis sets is the predefined analysis of
\* the example selected for it exactly when that example has an entry in
\* EXAMPLE_ANALYSES; otherwise it is a placeholder with 1 to 5 issues, lines in
\* 1..20, columns in 1..30, severities error, warning or info, and the score
\* max(20, 100 - 15 * issues), an integer in 0..100.
C25_PredefinedOrPlaceholder ==
    [][(page = "CodeScanAI" /\ Completes) =>
          IF HasPredefined(Completing.example)
          THEN pageResult' = EXAMPLE_ANALYSES[Completing.example]
          ELSE IsPlaceholder(pageResult')]_vars

C25_Witness ==
    /\ page = "CodeScanAI"
    /\ selectedExample = "4"
    /\ resultFrom = 2
    /\ Len(pageResult.issues) = 5
    /\ pageResult.score = 25
    /\ pageResult.issues[1].line = 20

BlankText(str) == \A i \in 1..Len(str) : str[i] \in Whitespace

\* C26: in CodeScanAI an invocation of analyzeCode while the editor code is empty
\* or whitespace-only changes none of isAnalyzing, result, code, language,
\* selectedExample, and starts nothing; and the trigger control is disabled then.
C26_BlankCodeIsNoOp ==
    /\ []((page = "CodeScanAI" /\ BlankText(editorCode)) => ControlDisabled)
    /\ [][(page = "CodeScanAI" /\ BlankText(editorCode) /\ ~bypassed /\ bypassed') =>
             UNCHANGED <<isAnalyzing, pageResult, editorCode, editorLanguage,
                         selectedExample, inflight, started, resultFrom>>]_vars

C26_Witness ==
    /\ page = "CodeScanAI"
    /\ bypassed
    /\ editorCode = <<" ", "\n">>
    /\ started = 1
    /\ inflight = {}
    /\ pageResult # NoResult

C30_DisplayedResultIsOfSelectedExample ==
    (page = "CodeScanAI" /\ pageResult # NoResult /\ HasPredefined(selectedExample))
        => pageResult = EXAMPLE_ANALYSES[selectedExample]

\* C22 (as claimed): on Home, storing and rendering whatever body the endpoint
\* returned never reads a property of an absent field nor calls a method of one.
C22_RenderingNeverDereferencesAbsent ==
    page = "Home" => ~RenderThrows(pageResult)

----------------------------------------------------------------------------
(* The client analyzeCode of frontend/src/api/analyze.ts (lines 20-39): it  *)
(* posts {code, language} to /api/analyze and returns the parsed body.  An  *)
(* Error is held as the string value of its message.                       *)

\* what POST of the route can answer
RouteResponses ==
    {CodeRequiredResponse, KeyMissingResponse, UnavailableResponse(<<>>),
     NoAnalysisResponse, InvalidFormatResponse, CatchResponse(NoError)}
    \cup {SuccessResponse(JSONparse(obj).val) : obj \in SampleObjects}

\* the Responses fetch can resolve with: those of the route, and answers of a
\* server in between whose body is no JSON
ClientResponses ==
    {[status |-> r.status, body |-> r.body, readable |-> TRUE] : r \in RouteResponses}
    \cup {[status |-> st, body |-> Undefined, readable |-> FALSE] : st \in {200, 502}}

\* fetch rejects (the request could not be made), or resolves with a Response
ClientFetchOutcomes ==
    {[rejects |-> TRUE, resp |-> NoClientResponse]}
    \cup {[rejects |-> FALSE, resp |-> r] : r \in ClientResponses}

ClientCodes == {<<>>, <<" ">>, <<"eval(", "x", ")">>}
ClientLanguages == {"javascript", "python", "typescript"}

FetchError == Str(<<"Failed to fetch">>)
AnalysisFailed == Str(<<"Analysis failed">>)
SyntaxError == Str(<<"Unexpected token">>)

\* a test that takes every Response as a success
ResponseAlwaysOk(resp) == TRUE
\* response.ok
ResponseOk(resp) == resp.status \in 200..299

\* lines 35-38: the catch clause logs the error and rethrows it
ClientCatch(err) ==
    /\ cLogged' = Append(cLogged, err)
    /\ cOutcome' = [kind |-> "rejected", value |-> err]
    /\ cPc' = "done"

ClientInit ==
    /\ RouteOff
    /\ PagesOff
    /\ aPc = "off"
    /\ aCode = <<>>
    /\ aLanguage = "javascript"
    /\ aResult = NoResult
    /\ aPrev = NoPrev
    /\ cPc = "fetching"
    /\ cRequest \in [code : ClientCodes, language : ClientLanguages]
    /\ cResponse = NoClientResponse
    /\ cOutcome = Pending
    /\ cLogged = <<>>

\* lines 22-32: the await of fetch ends; a Response that is not ok throws
ClientFetchSettles ==
    /\ cPc = "fetching"
    /\ \E o \in ClientFetchOutcomes :
          IF o.rejects
          THEN ClientCatch(FetchError) /\ UNCHANGED cResponse
          ELSE /\ cResponse' = o.resp
               /\ IF ~ResponseOk(o.resp)
                  THEN ClientCatch(AnalysisFailed)
                  ELSE cPc' = "reading" /\ UNCHANGED <<cOutcome, cLogged>>
    /\ UNCHANGED <<cRequest, routeVars, aPc, aCode, aLanguage, aResult, aPrev, pageVars, editorVars>>

\* line 34: the await of response.json() ends
ClientBodyRead ==
    /\ cPc = "reading"
    /\ IF cResponse.readable
       THEN /\ cOutcome' = [kind |-> "resolved", value |-> cResponse.body]
            /\ cPc' = "done"
            /\ UNCHANGED cLogged
       ELSE ClientCatch(SyntaxError)
    /\ UNCHANGED <<cRequest, cResponse, routeVars, aPc, aCode, aLanguage, aResult, aPrev,
                   pageVars, editorVars>>

ClientNext == ClientFetchSettles \/ ClientBodyRead

ClientSpec == ClientInit /\ [][ClientNext]_vars

\* C27: the client analyzeCode resolves only with the body of a Response that is
\* a success; a Response that is not a success makes it reject with the error
\* 'Analysis failed', never resolve with the error body; and an exception of the
\* request or of reading the body is logged once and rethrown to the caller.
C27_ClientRejectsOnFailure ==
    cPc = "done" =>
        /\ cOutcome.kind \in {"resolved", "rejected"}
        /\ cOutcome.kind = "resolved" =>
              /\ cResponse.status \in 200..299
              /\ cOutcome.value = cResponse.body
              /\ cLogged = <<>>
        /\ (cResponse # NoClientResponse /\ cResponse.status \notin 200..299) =>
              cOutcome = [kind |-> "rejected", value |-> AnalysisFailed]
        /\ cResponse = NoClientResponse =>
              cOutcome = [kind |-> "rejected", value |-> FetchError]
        /\ cOutcome.kind = "rejected" => cLogged = <<cOutcome.value>>

C27_Witness ==
    /\ cPc = "done"
    /\ cResponse.status = 500
    /\ IsErrorBody(cResponse.body)
    /\ cOutcome = [kind |-> "rejected", value |-> AnalysisFailed]

----------------------------------------------------------------------------
(* The issue counts CodeScanAI displays *)

\* part_001 line 427: the issues prop of EnhancedEditor, result?.issues || []
IssuesProp == IF pageResult = NoResult THEN <<>> ELSE pageResult.issues

\* enhanced-editor.tsx line 189: the badge of Issues Found
IssuesFound == Len(IssuesProp)

\* enhanced-editor.tsx lines 260, 269, 278 and part_001 lines 502, 511, 520:
\* issues.filter(i => i.severity === sev).length
SeverityCount(sev) == Len(SelectSeq(IssuesProp, LAMBDA i : i.severity = sev))

\* code-example-gallery.tsx lines 32, 48, 66, 84, 101, 122: the field `issues` of
\* an example, shown on its card as "{example.issues} issues" (line 245)
GalleryIssues(id) == IF id \in {"1", "5"} THEN 3 ELSE 2

\* the cards that are displayed: those of the gallery, when it is shown
CardsShown == IF showGallery THEN GalleryIds ELSE {}

\* the issues of severity sev in the sequence, counted one by one
RECURSIVE CountSeverity(_, _)
CountSeverity(issues, sev) ==
    IF issues = <<>> THEN 0
    ELSE (IF Head(issues).severity = sev THEN 1 ELSE 0) + CountSeverity(Tail(issues), sev)

\* C21 (as claimed): in CodeScanAI every displayed issue count agrees with the
\* issues of the result held: the total is their number, the error, warning and
\* info counts are those of the sequence and add up to the total, and the count
\* on the card of the selected example is not a number stored apart from them.
C21_DisplayedCountsFromIssues ==
    page = "CodeScanAI" =>
        LET held == IF pageResult = NoResult THEN <<>> ELSE pageResult.issues
        IN  /\ IssuesFound = Len(held)
            /\ \A sev \in {"error", "warning", "info"} :
                  SeverityCount(sev) = CountSeverity(held, sev)
            /\ SeverityCount("error") + SeverityCount("warning") + SeverityCount("info")
                  = Len(held)
            /\ (pageResult # NoResult /\ selectedExample \in CardsShown)
                  => GalleryIssues(selectedExample) = Len(held)

----------------------------------------------------------------------------
(* The component EnhancedEditor: the effect of lines 37-119 that decorates  *)
(* the editor for the prop issues.  The editor is Monaco's, which is not in *)
(* the repository: deltaDecorations(oldIds, newDecorations) removes the     *)
(* decorations of oldIds, adds the new ones and returns their ids, and what *)
(* editor.getModel()?.getLanguageConfiguration() gives (line 41) is one of: *)
(* "noFunction", the call throws; "noRange", a value without Range;         *)
(* "range", a value whose Range can be constructed.                         *)

MonacoBuilds == {"noFunction", "noRange", "range"}

\* values of the prop issues
IssueLists ==
    {<<>>,
     SubSeq(EXAMPLE_ANALYSES["1"].issues, 1, 1),
     EXAMPLE_ANALYSES["2"].issues}

\* editor.deltaDecorations(oldIds, newDecorations) on the decorations `model`,
\* the editor giving out ids from `nextId`: the decorations after the call and
\* the ids returned
DeltaDecorations(model, nextId, oldIds, newDecorations) ==
    LET ids == [k \in 1..Len(newDecorations) |-> nextId + k - 1]
        kept == {d \in model : \A k \in 1..Len(oldIds) : oldIds[k] # d.id}
    IN  [model |-> kept \cup {[id |-> ids[k], of |-> newDecorations[k]] :
                                  k \in 1..Len(newDecorations)},
         ids |-> ids]

EditorInit ==
    /\ RouteOff
    /\ AnalyzerOff
    /\ page = "off"
    /\ isAnalyzing = FALSE
    /\ pageResult = NoResult
    /\ inflight = {}
    /\ started = 0
    /\ bypassed = FALSE
    /\ resultFrom = 0
    /\ settled = <<>>
    /\ editorCode = <<>>
    /\ editorLanguage = "javascript"
    /\ selectedExample = "none"
    /\ showGallery = TRUE
    /\ pageErrors = 0
    /\ edMonaco \in MonacoBuilds
    /\ edMounted = FALSE
    /\ edIssues = <<>>
    /\ edModel = {}
    /\ edIds = <<>>
    /\ edNextId = 1
    /\ edStyle = 0
    /\ edSeen = FALSE
    /\ edCrashed = FALSE
    /\ edUpdates = 0

\* lines 121-136: onMount, handleEditorDidMount
EditorMounts ==
    /\ ~edMounted
    /\ edMounted' = TRUE
    /\ UNCHANGED <<edMonaco, edIssues, edModel, edIds, edNextId, edStyle, edSeen, edCrashed,
                   edUpdates,
                   routeVars, analyzerVars, clientVars, pageVars>>

\* the prop issues changes: the cleanup of the last run of the effect (lines
\* 115-119), then the effect (lines 37-113)
IssuesChange ==
    /\ ~edCrashed
    /\ edUpdates < MaxUpdates
    /\ edUpdates' = edUpdates + 1
    /\ \E new \in IssueLists :
          /\ edIssues' = new
          /\ IF ~edMounted                                  \* line 38: return
             THEN /\ edSeen' = FALSE
                  /\ edStyle' = 0
                  /\ UNCHANGED <<edModel, edIds, edNextId, edCrashed>>
             ELSE /\ edSeen' = TRUE
                  /\ IF \/ edMonaco = "noFunction"          \* line 41 throws
                        \/ edMonaco = "noRange" /\ new # <<>>   \* line 61 throws
                     THEN /\ edCrashed' = TRUE
                          /\ edStyle' = 0
                          /\ UNCHANGED <<edModel, edIds, edNextId>>
                     ELSE LET cleared == DeltaDecorations(edModel, edNextId, <<>>, <<>>)
                              added == DeltaDecorations(cleared.model, edNextId,
                                                        cleared.ids, new)
                          IN  /\ edModel' = added.model
                              /\ edIds' = added.ids
                              /\ edNextId' = edNextId + Len(new)
                              /\ edStyle' = 1
                              /\ edCrashed' = FALSE
    /\ UNCHANGED <<edMonaco, edMounted, routeVars, analyzerVars, clientVars, pageVars>>

EditorNext == EditorMounts \/ IssuesChange

EditorSpec == EditorInit /\ [][EditorNext]_vars

\* C24 (as claimed): once the effect has run to its end for the current issues
\* with the editor mounted, the decorations present in the editor are exactly
\* those created for the current issues, one for each.
C24_DecorationsAreOfCurrentIssues ==
    edSeen /\ ~edCrashed =>
        /\ Cardinality(edModel) = Len(edIssues)
        /\ {d.of : d \in edModel} = {edIssues[k] : k \in 1..Len(edIssues)}
        /\ {d.id : d \in edModel} = {edIds[k] : k \in 1..Len(edIds)}

====
